---- MODULE Spec2Model ----
(***************************************************************************)
(* Healthlink_Agent: the two conversation pipelines of the repository and  *)
(* their entry points.                                                     *)
(*                                                                         *)
(*   agent.py        the five-node graph `app`                             *)
(*                   receive_query -> fetch_context -> llm_suggest ->      *)
(*                   escalate_if_needed -> save_and_respond -> END,        *)
(*                   driven by the chat UI (chat_app.py)                   *)
(*   agent_graph.py  the two-node graph `healthcare_agent`                 *)
(*                   fetch_patient_context -> generate_response -> END,    *)
(*                   run by invoke_agent, which the HTTP endpoint /chat    *)
(*                   (backend_api.py) calls after validating the request   *)
(*                                                                         *)
(* Texts are TLA+ strings; str.lower, str.strip, `in` and ", ".join are    *)
(* computed character by character.  The graph state is a dictionary (a    *)
(* function from keys to values): a key a node has not written is absent,  *)
(* and a node's returned update overrides the keys it names.               *)
(***************************************************************************)
EXTENDS Naturals, Sequences, FiniteSets, TLC

VARIABLES
    session,   \* chat_app: st.session_state.chat_history
    entry,     \* entry point of the current request: none | chat_app | chat | invoke_agent
    pc,        \* position of the current request
    state,     \* the graph state dictionary of the current run
    req,       \* locals of the entry point (prompt and history_for_bot, or user_id, message, thread_id)
    lookup,    \* outcome of this run's context lookup: none | ok | failed
    model,     \* outcome of this run's llm.invoke: none | ok | failed
    sent,      \* the message sequences handed to llm.invoke in this run
    tasks,     \* provider tasks created by mock_create_provider_task in this run
    visited,   \* graph nodes executed in this run, in order
    result,    \* what the run gave its caller: pending | returned | raised | none
    out,       \* what the entry point gave the end user
    turns,     \* requests accepted so far
    runs,      \* runs in progress side by side, each with its own graph state
    checkpoints \* what the compiled graphs' checkpointer holds, by graph and thread_id

vars == <<session, entry, pc, state, req, lookup, model, sent, tasks, visited, result, out, turns,
          runs, checkpoints>>

\* Number of requests one behaviour accepts.
MaxTurns == 3

-----------------------------------------------------------------------------
(* Text *)

Char(s, i) == SubSeq(s, i, i)

LowerOf ==
    ("A" :> "a") @@ ("B" :> "b") @@ ("C" :> "c") @@ ("D" :> "d") @@ ("E" :> "e") @@
    ("F" :> "f") @@ ("G" :> "g") @@ ("H" :> "h") @@ ("I" :> "i") @@ ("J" :> "j") @@
    ("K" :> "k") @@ ("L" :> "l") @@ ("M" :> "m") @@ ("N" :> "n") @@ ("O" :> "o") @@
    ("P" :> "p") @@ ("Q" :> "q") @@ ("R" :> "r") @@ ("S" :> "s") @@ ("T" :> "t") @@
    ("U" :> "u") @@ ("V" :> "v") @@ ("W" :> "w") @@ ("X" :> "x") @@ ("Y" :> "y") @@
    ("Z" :> "z")

\* str.lower(), character by character (the text is halved to keep the
\* evaluation shallow)
RECURSIVE lower(_)
lower(s) ==
    IF Len(s) = 0 THEN ""
    ELSE IF Len(s) = 1 THEN (IF s \in DOMAIN LowerOf THEN LowerOf[s] ELSE s)
    ELSE lower(SubSeq(s, 1, Len(s) \div 2)) \o lower(SubSeq(s, Len(s) \div 2 + 1, Len(s)))

\* `sub in s`
Contains(s, sub) ==
    \E i \in 1..(Len(s) + 1) :
        i + Len(sub) - 1 <= Len(s) /\ SubSeq(s, i, i + Len(sub) - 1) = sub

Whitespace == {" ", "\t", "\n", "\r"}

\* `not s or not s.strip()`
IsBlank(s) == \A i \in 1..Len(s) : Char(s, i) \in Whitespace

\* sep.join(items)
RECURSIVE join(_, _)
join(sep, items) ==
    IF Len(items) = 0 THEN ""
    ELSE IF Len(items) = 1 THEN items[1]
    ELSE items[1] \o sep \o join(sep, Tail(items))

-----------------------------------------------------------------------------
(* Python values held in a context dictionary, and their str() *)

S(x) == [t |-> "str", v |-> x]
I(n) == [t |-> "int", v |-> n]
L(xs) == [t |-> "list", v |-> xs]
D(d) == [t |-> "dict", v |-> d]
PyNone == [t |-> "None", v |-> ""]

\* the text an f-string renders for a value that is a str, an int or None
Fmt(val) ==
    CASE val.t = "str" -> val.v
      [] val.t = "int" -> ToString(val.v)
      [] OTHER -> "None"

\* dict.get(key) and dict.get(key, default)
Get(d, key) == IF key \in DOMAIN d THEN d[key] ELSE PyNone
GetOr(d, key, default) == IF key \in DOMAIN d THEN d[key] ELSE default

\* a node's returned update applied to the graph state
Merge(st, update) == update @@ st

HumanMessage(text) == [role |-> "human", content |-> text]
AIMessage(text) == [role |-> "ai", content |-> text]
SystemMessage(text) == [role |-> "system", content |-> text]

-----------------------------------------------------------------------------
(* Inputs: what the end user types, what the callers pass, what the        *)
(* text-generation backend answers.                                        *)

\* prompts typed into the chat UI (st.chat_input yields only non-empty text)
Prompts == {"Any tip for my diet?", "Is my dose ok?"}

\* response.content of a successful llm.invoke
ModelContents ==
    { "",
      "Eat more fiber.",
      "You may need a dosage change.",
      "This is URGENT.",
      "Resurgent appetite is normal." }

\* the exception text of a failed llm.invoke and of a failed lookup
LlmError == "429 quota exceeded"
LookupError == "connection refused"

\* arguments of invoke_agent and fields of a ChatRequest; "" as thread_id
\* stands for None (both take the `or` branch)
UserIds == {"", "patient-12345"}
BlankUserIds == {"", "  "}
Messages == {"", "What should I eat?"}
ThreadIds == {"", "thread-abc-123"}
Uuid8 == {"1a2b3c4d"}

-----------------------------------------------------------------------------
(* agent.py: the five-node graph *)

escalation_keywords == {"medication change", "severe pain", "urgent", "dosage"}

mock_recognize_intent(query) ==
    IF Contains(lower(query), "suggestion") \/ Contains(lower(query), "tip")
    THEN "suggestion_request"
    ELSE IF Contains(lower(query), "explain") \/ Contains(lower(query), "what is")
    THEN "info_request"
    ELSE "general_chat"

mock_load_context(patient_id, intent) ==
    [ patient_id   |-> S(patient_id),
      name         |-> S("Jane Doe"),
      recent_visit |-> S("2025-10-28"),
      diagnosis    |-> S("Type 2 Diabetes"),
      medication   |-> S("Metformin 500mg"),
      lab_results  |-> D([hba1c |-> S("7.2%")]) ]

\* receive_query with the incoming message left out of the history
receive_query_no_append(st) ==
    [ intent       |-> mock_recognize_intent(st.input),
      chat_history |-> st.chat_history ]

\* the update receive_query returns
receive_query(st) ==
    [ intent       |-> mock_recognize_intent(st.input),
      chat_history |-> st.chat_history \o <<HumanMessage(st.input)>> ]

\* the update fetch_context returns
fetch_context(st) ==
    [ context |-> mock_load_context("patient-123", st.intent) ]

\* the system prompt llm_suggest renders from the context
llm_suggest_prompt(context) ==
    "You are an AI Communicator for a health platform. You are talking to a patient.\n"
    \o "Your tone must be empathetic, clear, and supportive. DO NOT give medical advice,\n"
    \o "but you can provide suggestions based on the data.\n"
    \o "Patient Context:\n"
    \o "- Name: " \o Fmt(Get(context, "name")) \o "\n"
    \o "- Diagnosis: " \o Fmt(Get(context, "diagnosis")) \o "\n"
    \o "- Medication: " \o Fmt(Get(context, "medication")) \o "\n"
    \o "- Recent HbA1c: " \o Fmt(Get(GetOr(context, "lab_results", D(<<>>)).v, "hba1c")) \o "\n"
    \o "Respond to the user's last message."

\* the message sequence llm_suggest hands to llm.invoke
llm_suggest_messages(st) ==
    <<SystemMessage(llm_suggest_prompt(st.context))>> \o st.chat_history

\* llm_suggest storing the sequence it sent, system prompt included
llm_suggest_keeps_prompt(st, content) ==
    [ suggestion   |-> content,
      chat_history |-> llm_suggest_messages(st) \o <<AIMessage(content)>> ]

\* the update llm_suggest returns when llm.invoke answered with `content`
llm_suggest(st, content) ==
    [ suggestion   |-> content,
      chat_history |-> st.chat_history \o <<AIMessage(content)>> ]

\* the keyword test of escalate_if_needed
escalation_hit(suggestion) ==
    \E keyword \in escalation_keywords : Contains(lower(suggestion), keyword)

\* escalate_if_needed creating the task outside its `if`
escalate_tasks_unconditional(st, created) ==
    Append(created, [context |-> st.context, suggestion |-> st.suggestion])

\* the provider tasks after escalate_if_needed's check
escalate_tasks(st, created) ==
    IF escalation_hit(st.suggestion)
    THEN Append(created, [context |-> st.context, suggestion |-> st.suggestion])
    ELSE created

\* the update escalate_if_needed returns
escalate_if_needed(st) ==
    [ escalate |-> escalation_hit(st.suggestion) ]

\* the update save_and_respond returns
\* save_and_respond returning a cleared flag with its update
save_and_respond_resets(st) == [input |-> PyNone, escalate |-> FALSE]

save_and_respond(st) ==
    [ input |-> PyNone ]

-----------------------------------------------------------------------------
(* agent_graph.py: the two-node graph and invoke_agent *)

\* the context the try block of fetch_patient_context assembles
mock_patient_context ==
    [ name            |-> S("Jane Doe"),
      age             |-> I(45),
      email           |-> S("jane.doe@example.com"),
      medical_history |-> S("Type 2 Diabetes diagnosed in 2020"),
      diagnoses       |-> L(<<"Type 2 Diabetes", "Hypertension">>),
      medications     |-> L(<<"Metformin 500mg twice daily", "Lisinopril 10mg daily">>),
      allergies       |-> L(<<"Penicillin">>),
      last_visit      |-> S("2025-12-01"),
      blockchain_hash |-> S("0x1234567890abcdef...") ]

\* the except branch without its error entry
fallback_patient_context_no_marker(e) ==
    [ name            |-> S("Patient"),
      age             |-> S("Unknown"),
      medical_history |-> S("No data available") ]

\* the context the except branch of fetch_patient_context substitutes
fallback_patient_context(e) ==
    [ name            |-> S("Patient"),
      age             |-> S("Unknown"),
      medical_history |-> S("No data available"),
      error           |-> S(e) ]

\* the update fetch_patient_context returns; `failed` when its try block raised
fetch_patient_context(st, failed) ==
    [ patient_context |-> IF failed THEN fallback_patient_context(LookupError)
                          ELSE mock_patient_context ]

\* `text or default`
OrElse(text, default) == IF text = "" THEN default ELSE text

\* the system prompt generate_response renders from the patient context
system_prompt(patient_context) ==
    LET name == Fmt(GetOr(patient_context, "name", S("Patient")))
        age == Fmt(GetOr(patient_context, "age", S("Unknown")))
        medical_history ==
            Fmt(GetOr(patient_context, "medical_history", S("No medical history available")))
        diagnoses == join(", ", GetOr(patient_context, "diagnoses", L(<<>>)).v)
        medications == join(", ", GetOr(patient_context, "medications", L(<<>>)).v)
        allergies == join(", ", GetOr(patient_context, "allergies", L(<<"None known">>)).v)
    IN  "You are a helpful and empathetic medical assistant AI. \n\n"
        \o "You are currently speaking to **" \o name \o "**, who is **" \o age
        \o " years old**.\n\n"
        \o "**Patient Medical Context:**\n"
        \o "- **Medical History:** " \o medical_history \o "\n"
        \o "- **Current Diagnoses:** " \o OrElse(diagnoses, "None on record") \o "\n"
        \o "- **Current Medications:** " \o OrElse(medications, "None on record") \o "\n"
        \o "- **Known Allergies:** " \o allergies \o "\n\n"
        \o "**Important Guidelines:**\n"
        \o "1. Provide personalized advice based on the patient's specific medical context\n"
        \o "2. Always be empathetic and supportive in your tone\n"
        \o "3. DO NOT provide medical diagnoses or prescribe medications\n"
        \o "4. If the question requires immediate medical attention, advise the patient to contact their healthcare provider\n"
        \o "5. Reference their specific conditions and medications when relevant\n"
        \o "6. Be clear that you are an AI assistant and not a replacement for professional medical advice\n\n"
        \o "Answer the patient's question based on their medical context while following these guidelines."

\* the message sequence generate_response hands to llm.invoke
full_messages(st) ==
    <<SystemMessage(system_prompt(st.patient_context))>> \o st.messages

error_response ==
    "I apologize, but I'm having trouble processing your request right now. "
    \o "Please try again or contact your healthcare provider if this is urgent."

\* generate_response returning the reply alone as the message list
generate_response_reply_only(st, content, failed) ==
    IF failed
    THEN [ messages |-> <<AIMessage(error_response)>>,
           response |-> error_response ]
    ELSE [ messages |-> <<AIMessage(content)>>,
           response |-> content ]

\* the update generate_response returns: `content` is response.content, and
\* `failed` says that its try block raised
generate_response(st, content, failed) ==
    IF failed
    THEN [ messages |-> st.messages \o <<AIMessage(error_response)>>,
           response |-> error_response ]
    ELSE [ messages |-> st.messages \o <<AIMessage(content)>>,
           response |-> content ]

\* config["configurable"]["thread_id"] of invoke_agent
config_thread_id(user_id, thread_id) ==
    IF thread_id # "" THEN thread_id ELSE "thread-" \o user_id

\* initial_state of invoke_agent
initial_state(user_id, message) ==
    [ messages        |-> <<HumanMessage(message)>>,
      user_id         |-> user_id,
      patient_context |-> <<>>,
      response        |-> "" ]

\* the dictionary invoke_agent returns
invoke_agent_result(final_state, user_id, thread_id) ==
    [ response        |-> GetOr(final_state, "response", ""),
      user_id         |-> user_id,
      thread_id       |-> thread_id,
      patient_context |-> GetOr(final_state, "patient_context", <<>>) ]

\* the validation of the /chat handler: the detail of its 400, or "" when
\* the request passes
chat_validation(user_id, message) ==
    IF IsBlank(user_id) THEN "user_id is required and cannot be empty"
    ELSE IF IsBlank(message) THEN "message is required and cannot be empty"
    ELSE ""

\* thread_id of the /chat handler
chat_thread_id(user_id, thread_id, uuid8) ==
    IF thread_id # "" THEN thread_id ELSE "thread-" \o user_id \o "-" \o uuid8

-----------------------------------------------------------------------------
(* The state machine *)

Init ==
    /\ session = <<>>
    /\ entry = "none"
    /\ pc = "idle"
    /\ state = <<>>
    /\ req = <<>>
    /\ lookup = "none"
    /\ model = "none"
    /\ sent = <<>>
    /\ tasks = <<>>
    /\ visited = <<>>
    /\ result = [kind |-> "none"]
    /\ out = [kind |-> "none"]
    /\ turns = 0
    /\ runs = <<>>
    /\ checkpoints = <<>>

\* a request is accepted: the previous run's record is dropped
Accept(point) ==
    /\ pc = "idle"
    /\ turns < MaxTurns
    /\ turns' = turns + 1
    /\ entry' = point
    /\ lookup' = "none"
    /\ model' = "none"
    /\ sent' = <<>>
    /\ tasks' = <<>>
    /\ visited' = <<>>
    /\ UNCHANGED <<runs, checkpoints>>

\* chat_app.py 32-56: a prompt is submitted; the UI stores it and calls app.invoke
ChatAppSubmit ==
    \E prompt \in Prompts :
        LET stored == Append(session, HumanMessage(prompt))
            history_for_bot == SubSeq(stored, 1, Len(stored) - 1)
        IN  /\ Accept("chat_app")
            /\ session' = stored
            /\ req' = [prompt |-> prompt, history_for_bot |-> history_for_bot]
            /\ state' = [input |-> prompt, chat_history |-> history_for_bot]
            /\ result' = [kind |-> "pending"]
            /\ out' = [kind |-> "none"]
            /\ pc' = "receive_query"

ReceiveQuery ==
    /\ pc = "receive_query"
    /\ state' = Merge(state, receive_query(state))
    /\ visited' = Append(visited, "receive_query")
    /\ pc' = "fetch_context"
    /\ UNCHANGED <<session, entry, req, lookup, model, sent, tasks, result, out, turns, runs, checkpoints>>

FetchContext ==
    /\ pc = "fetch_context"
    /\ state' = Merge(state, fetch_context(state))
    /\ lookup' = "ok"
    /\ visited' = Append(visited, "fetch_context")
    /\ pc' = "llm_suggest"
    /\ UNCHANGED <<session, entry, req, model, sent, tasks, result, out, turns, runs, checkpoints>>

\* llm.invoke answers, and the node returns its update
LlmSuggestOk ==
    /\ pc = "llm_suggest"
    /\ \E content \in ModelContents :
        state' = Merge(state, llm_suggest(state, content))
    /\ sent' = Append(sent, llm_suggest_messages(state))
    /\ model' = "ok"
    /\ visited' = Append(visited, "llm_suggest")
    /\ pc' = "escalate_if_needed"
    /\ UNCHANGED <<session, entry, req, lookup, tasks, result, out, turns, runs, checkpoints>>

\* llm.invoke raises: nothing in the node or the graph catches it, and
\* app.invoke raises to chat_app
LlmSuggestRaise ==
    /\ pc = "llm_suggest"
    /\ sent' = Append(sent, llm_suggest_messages(state))
    /\ model' = "failed"
    /\ visited' = Append(visited, "llm_suggest")
    /\ result' = [kind |-> "raised", error |-> LlmError]
    /\ pc' = "app_raised"
    /\ UNCHANGED <<session, entry, state, req, lookup, tasks, out, turns, runs, checkpoints>>

\* escalate_if_needed up to its return: the keyword test and, on a hit,
\* mock_create_provider_task
EscalateCheck ==
    /\ pc = "escalate_if_needed"
    /\ tasks' = escalate_tasks(state, tasks)
    /\ visited' = Append(visited, "escalate_if_needed")
    /\ pc' = "escalate_if_needed_return"
    /\ UNCHANGED <<session, entry, state, req, lookup, model, sent, result, out, turns, runs, checkpoints>>

\* escalate_if_needed returns and the graph writes its update
EscalateReturn ==
    /\ pc = "escalate_if_needed_return"
    /\ state' = Merge(state, escalate_if_needed(state))
    /\ pc' = "save_and_respond"
    /\ UNCHANGED <<session, entry, req, lookup, model, sent, tasks, visited, result, out, turns, runs, checkpoints>>

\* the last node; app.invoke returns the final state
SaveAndRespond ==
    /\ pc = "save_and_respond"
    /\ state' = Merge(state, save_and_respond(state))
    /\ visited' = Append(visited, "save_and_respond")
    /\ result' = [kind |-> "returned", final_state |-> state']
    /\ pc' = "app_returned"
    /\ UNCHANGED <<session, entry, req, lookup, model, sent, tasks, out, turns, runs, checkpoints>>

\* chat_app.py 58-65: the reply is shown and stored
ChatAppDisplay ==
    /\ pc = "app_returned"
    /\ LET response == GetOr(result.final_state, "suggestion",
                             "Sorry, I'm not sure how to respond to that.")
       IN  /\ session' = Append(session, AIMessage(response))
           /\ out' = [kind |-> "write", text |-> response]
    /\ pc' = "idle"
    /\ UNCHANGED <<entry, state, req, lookup, model, sent, tasks, visited, result, turns, runs, checkpoints>>

\* the except branch showing the error and keeping the stored prompt
ChatAppExcept_no_pop ==
    /\ pc = "app_raised"
    /\ out' = [kind |-> "error", text |-> "An error occurred: " \o result.error]
    /\ pc' = "idle"
    /\ UNCHANGED <<session, entry, state, req, lookup, model, sent, tasks, visited, result,
                   turns, runs, checkpoints>>

\* chat_app.py 67-70: the error is shown and the stored prompt removed
ChatAppExcept ==
    /\ pc = "app_raised"
    /\ session' = SubSeq(session, 1, Len(session) - 1)
    /\ out' = [kind |-> "error", text |-> "An error occurred: " \o result.error]
    /\ pc' = "idle"
    /\ UNCHANGED <<entry, state, req, lookup, model, sent, tasks, visited, result, turns, runs, checkpoints>>

\* invoke_agent 262-279, entered with `point` as the entry point
StartAgent(point, user_id, message, thread_id) ==
    /\ Accept(point)
    /\ req' = [ user_id   |-> user_id,
                message   |-> message,
                thread_id |-> config_thread_id(user_id, thread_id) ]
    /\ state' = initial_state(user_id, message)
    /\ result' = [kind |-> "pending"]
    /\ out' = [kind |-> "none"]
    /\ pc' = "fetch_patient_context"
    /\ UNCHANGED session

\* invoke_agent called directly (the module's own test, any importer)
InvokeAgent ==
    \E user_id \in UserIds, message \in Messages, thread_id \in ThreadIds :
        StartAgent("invoke_agent", user_id, message, thread_id)

\* backend_api.py 113-143: POST /chat; a request that fails validation is
\* answered 400 and starts no run
Chat ==
    \E user_id \in UserIds \cup BlankUserIds, message \in Messages,
       thread_id \in ThreadIds, uuid8 \in Uuid8 :
        IF chat_validation(user_id, message) # ""
        THEN /\ Accept("chat")
             /\ out' = [ kind   |-> "http",
                         status |-> 400,
                         detail |-> chat_validation(user_id, message) ]
             /\ req' = [user_id |-> user_id, message |-> message, thread_id |-> thread_id]
             /\ state' = <<>>
             /\ result' = [kind |-> "none"]
             /\ pc' = "idle"
             /\ UNCHANGED session
        ELSE StartAgent("chat", user_id, message,
                        chat_thread_id(user_id, thread_id, uuid8))

\* the try block either completes or raises into the except branch
FetchPatientContext ==
    /\ pc = "fetch_patient_context"
    /\ \E failed \in BOOLEAN :
        /\ state' = Merge(state, fetch_patient_context(state, failed))
        /\ lookup' = IF failed THEN "failed" ELSE "ok"
    /\ visited' = Append(visited, "fetch_patient_context")
    /\ pc' = "generate_response"
    /\ UNCHANGED <<session, entry, req, model, sent, tasks, result, out, turns, runs, checkpoints>>

\* the try block completes, or it raises into the except branch: in
\* llm.invoke (the messages were handed over) or before it (they were not)
GenerateResponse ==
    /\ pc = "generate_response"
    /\ \E failed \in BOOLEAN, content \in ModelContents, invoked \in BOOLEAN :
        /\ ~failed => invoked
        /\ state' = Merge(state, generate_response(state, content, failed))
        /\ model' = IF failed THEN "failed" ELSE "ok"
        /\ sent' = IF invoked THEN Append(sent, full_messages(state)) ELSE sent
    /\ visited' = Append(visited, "generate_response")
    /\ pc' = "agent_end"
    /\ UNCHANGED <<session, entry, req, lookup, tasks, result, out, turns, runs, checkpoints>>

\* invoke_agent 285-290
InvokeAgentReturn ==
    /\ pc = "agent_end"
    /\ result' = [ kind  |-> "returned",
                   value |-> invoke_agent_result(state, req.user_id, req.thread_id) ]
    /\ pc' = IF entry = "chat" THEN "chat_respond" ELSE "idle"
    /\ UNCHANGED <<session, entry, state, req, lookup, model, sent, tasks, visited, out, turns, runs, checkpoints>>

\* backend_api.py 145-160: the ChatResponse is sent (invoke_agent never
\* raises, so the handler's 500 branch is not entered)
ChatRespond ==
    /\ pc = "chat_respond"
    /\ out' = [ kind |-> "http", status |-> 200, body |-> result.value ]
    /\ pc' = "idle"
    /\ UNCHANGED <<session, entry, state, req, lookup, model, sent, tasks, visited, result, turns, runs, checkpoints>>

\* the user_id path parameter of GET /patient/{user_id} (an empty segment
\* does not match the route)
PathUserIds == {" ", "  ", "patient-12345"}

\* str() of the caught HTTPException: "<status_code>: <detail>", or empty
\* where the exception class defines no __str__
HTTPExceptionStr == {"400: user_id is required", ""}

\* backend_api.py 195-204, 215-219: GET /patient/{user_id}; the HTTPException
\* raised for a blank user_id is caught by the handler's own
\* `except Exception` and answered as a 500
GetPatientContext ==
    \E user_id \in PathUserIds, e \in HTTPExceptionStr :
        /\ Accept("get_patient_context")
        /\ req' = [user_id |-> user_id]
        /\ result' = [kind |-> "none"]
        /\ UNCHANGED session
        /\ IF IsBlank(user_id)
           THEN /\ out' = [ kind   |-> "http",
                            status |-> 500,
                            detail |-> "Failed to fetch patient context: " \o e ]
                /\ state' = <<>>
                /\ pc' = "idle"
           ELSE /\ out' = [kind |-> "none"]
                /\ state' = [user_id |-> user_id]
                /\ pc' = "get_patient_context_fetch"

\* backend_api.py 206-213: fetch_patient_context is called on the handler's
\* own dictionary and its patient_context is returned (with a timestamp, not
\* modelled); the node absorbs a failed lookup, so the 500 branch is not
\* entered from here
GetPatientContextFetch ==
    /\ pc = "get_patient_context_fetch"
    /\ \E failed \in BOOLEAN :
        out' = [ kind   |-> "http",
                 status |-> 200,
                 body   |-> [ user_id         |-> state.user_id,
                              patient_context |->
                                  fetch_patient_context(state, failed).patient_context ] ]
    /\ visited' = Append(visited, "fetch_patient_context")
    /\ pc' = "idle"
    /\ UNCHANGED <<session, entry, state, req, lookup, model, sent, tasks, result, turns,
                   runs, checkpoints>>

Next ==
    \/ ChatAppSubmit
    \/ ReceiveQuery
    \/ FetchContext
    \/ LlmSuggestOk
    \/ LlmSuggestRaise
    \/ EscalateCheck
    \/ EscalateReturn
    \/ SaveAndRespond
    \/ ChatAppDisplay
    \/ ChatAppExcept
    \/ InvokeAgent
    \/ Chat
    \/ FetchPatientContext
    \/ GenerateResponse
    \/ InvokeAgentReturn
    \/ ChatRespond
    \/ GetPatientContext
    \/ GetPatientContextFetch

Spec == Init /\ [][Next]_vars

-----------------------------------------------------------------------------
(* Vocabulary of the properties *)

\* the run has ended at its caller: app.invoke or invoke_agent returned or raised
RunEnded == result.kind \in {"returned", "raised"}

\* the run was started with a non-empty userId, a non-empty message and a
\* well-formed prior history (the chat UI passes a non-empty prompt and its
\* own stored human/ai turns; invoke_agent takes no prior history)
WellFormedInput ==
    \/ entry = "chat_app"
    \/ entry \in {"chat", "invoke_agent"} /\ req.user_id # "" /\ req.message # ""

\* the reply of a run that returned
Reply ==
    IF entry = "chat_app" THEN result.final_state.suggestion
    ELSE result.value.response

\* the conversation history in the final graph state of a run that returned
FinalHistory ==
    IF entry = "chat_app" THEN result.final_state.chat_history
    ELSE state.messages

NoSystemMessage(history) == \A i \in 1..Len(history) : history[i].role # "system"

\* the stages of the specification's state machine a run has passed through,
\* read off the nodes it executed: llm_suggest and generate_response compose
\* the prompt and, when the run went on, obtained the reply
RECURSIVE StagesOf(_)
StagesOf(nodes) ==
    IF nodes = <<>> THEN <<>>
    ELSE (CASE Head(nodes) = "receive_query" -> <<>>
            [] Head(nodes) \in {"fetch_context", "fetch_patient_context"} ->
                   <<"ContextResolved">>
            [] Head(nodes) \in {"llm_suggest", "generate_response"} ->
                   IF result.kind = "raised" THEN <<"PromptComposed">>
                   ELSE <<"PromptComposed", "Replied">>
            [] Head(nodes) = "escalate_if_needed" -> <<"Gated">>
            [] OTHER -> <<>>)
         \o StagesOf(Tail(nodes))

Stages ==
    <<"Created">> \o StagesOf(visited)
    \o (IF result.kind = "returned" THEN <<"Done">> ELSE <<>>)

-----------------------------------------------------------------------------
(* Properties *)

\* C1: every run started with well-formed input ends by returning a reply
\* that is a non-empty string, whatever the lookup and the model call did.
C1_RunReturnsNonEmptyReply ==
    (RunEnded /\ WellFormedInput) => (result.kind = "returned" /\ Reply # "")

\* C2: a run raises to its caller only for invalid input; a run whose lookup
\* or model call failed still returns a result carrying a reply.
C2_OnlyInvalidInputRaises ==
    /\ result.kind = "raised" => ~WellFormedInput
    /\ (RunEnded /\ (lookup = "failed" \/ model = "failed")) => result.kind = "returned"

\* C3: a run whose model call failed and that returned a reply returned the
\* fixed fallback string, and the keyword test of the Safety Gate finds no
\* trigger phrase in it.
C3_FallbackNotEscalated ==
    (result.kind = "returned" /\ WellFormedInput /\ model = "failed") =>
        (Reply = error_response /\ ~escalation_hit(Reply))

\* C4: every run that returns a reply returns an escalated value with it, and
\* that value is true exactly when the lower-cased reply contains a trigger
\* phrase.
C4_EscalatedIffTrigger ==
    (result.kind = "returned" /\ WellFormedInput) =>
        LET returned == IF entry = "chat_app" THEN result.final_state ELSE result.value
        IN  /\ "escalate" \in DOMAIN returned
            /\ returned.escalate <=>
                   \E phrase \in {"medication change", "severe pain", "urgent", "dosage"} :
                       Contains(lower(Reply), phrase)


\* C5: a provider task carrying the context and the reply is created in a run
\* exactly when the Safety Gate decides to escalate, at most one per run, and
\* it exists before the decision is written to the state: while the gate has
\* not yet returned, the state holds no decision and the task is already
\* there if the gate is about to escalate; no task exists before the gate.
C5_NotifyIffEscalate ==
    /\ Len(tasks) <= 1
    /\ \A i \in 1..Len(tasks) :
           tasks[i] = [context |-> state.context, suggestion |-> state.suggestion]
    /\ "escalate" \in DOMAIN state => (state.escalate <=> Len(tasks) = 1)
    /\ pc = "escalate_if_needed_return" =>
           /\ "escalate" \notin DOMAIN state
           /\ escalate_if_needed(state).escalate <=> Len(tasks) = 1
    /\ "escalate_if_needed" \notin {visited[i] : i \in 1..Len(visited)} => tasks = <<>>
    /\ (RunEnded /\ Len(tasks) = 1) => (result.kind = "returned" /\ result.final_state.escalate)

\* C5 witness: the gate has created the task and has not yet returned
C5_Witness ==
    /\ pc = "escalate_if_needed_return"
    /\ Len(tasks) = 1
    /\ tasks[1].suggestion = "You may need a dosage change."
    /\ "escalate" \notin DOMAIN state

\* C6: the history of a completed run is the caller's prior history, then the
\* incoming user message, then the assistant reply: its length is the prior
\* length plus 2, whether the model answered or the fallback was used.
C6_HistoryGrowsByTwo ==
    result.kind = "returned" =>
        LET prior == IF entry = "chat_app" THEN req.history_for_bot ELSE <<>>
            incoming == IF entry = "chat_app" THEN req.prompt ELSE req.message
        IN  /\ Len(FinalHistory) = Len(prior) + 2
            /\ FinalHistory = prior \o <<HumanMessage(incoming), AIMessage(Reply)>>

\* C6 witness: a completed run of the second chat turn, with two prior entries
C6_Witness ==
    /\ result.kind = "returned"
    /\ entry = "chat_app"
    /\ Len(req.history_for_bot) = 2
    /\ Len(result.final_state.chat_history) = 4

\* C7: when the context lookup fails the provider returns the degraded
\* profile (name "Patient", history "No data available", an error marker)
\* instead of raising, and the run goes on to return a result that carries it.
C7_DegradedContext ==
    lookup = "failed" =>
        /\ Get(state.patient_context, "name") = S("Patient")
        /\ Get(state.patient_context, "medical_history") = S("No data available")
        /\ "error" \in DOMAIN state.patient_context
        /\ pc \in {"generate_response", "agent_end", "chat_respond", "idle"}
        /\ result.kind \in {"pending", "returned"}
        /\ pc \in {"chat_respond", "idle"} =>
               /\ result.kind = "returned"
               /\ result.value.patient_context = state.patient_context
               /\ visited = <<"fetch_patient_context", "generate_response">>

\* C7 witness: a run whose lookup failed has returned its result
C7_Witness ==
    /\ lookup = "failed"
    /\ result.kind = "returned"
    /\ "error" \in DOMAIN result.value.patient_context

\* C8: a request with an empty userId is refused before any pipeline step:
\* no graph state exists, no node ran, the model was not called, no task was
\* created and no result is returned, at the HTTP endpoint and at
\* invoke_agent alike.
C8_EmptyUserIdRefused ==
    (entry \in {"chat", "invoke_agent"} /\ req.user_id = "") =>
        /\ DOMAIN state = {}
        /\ visited = <<>>
        /\ sent = <<>>
        /\ tasks = <<>>
        /\ result.kind \notin {"pending", "returned"}

\* C9: every run that has ended passed through Created, ContextResolved,
\* PromptComposed, Replied, Gated, Done, in that order and each once.
C9_SixStagesInOrder ==
    RunEnded =>
        Stages = <<"Created", "ContextResolved", "PromptComposed", "Replied", "Gated", "Done">>

\* C10: every message sequence handed to the backend has exactly one system
\* message, at position 0, and no conversation history (the graph state's,
\* the UI session's, the one resupplied to the next run) holds a system
\* message.
C10_OneSystemPrompt ==
    /\ \A i \in 1..Len(sent) :
           /\ Len(sent[i]) >= 1
           /\ sent[i][1].role = "system"
           /\ \A j \in 2..Len(sent[i]) : sent[i][j].role # "system"
    /\ NoSystemMessage(session)
    /\ "chat_history" \in DOMAIN state => NoSystemMessage(state.chat_history)
    /\ "messages" \in DOMAIN state => NoSystemMessage(state.messages)

\* C10 witness: the model is invoked in a second chat turn, with the history
\* of the first turn resupplied
C10_Witness ==
    /\ entry = "chat_app"
    /\ Len(sent) = 1
    /\ Len(sent[1]) = 4
    /\ sent[1][2].role = "human"
    /\ sent[1][3].role = "ai"


-----------------------------------------------------------------------------
(* The Prompt Composer on its own: the two prompt renderings applied to    *)
(* profiles in which any attribute may be absent and any list empty.       *)

PatientContextKeys ==
    {"name", "age", "medical_history", "diagnoses", "medications", "allergies"}
PatientContextLists == {"diagnoses", "medications", "allergies"}

\* patient_context dictionaries handed to generate_response
PatientContexts ==
    UNION { { [k \in K |-> IF k \in E THEN L(<<>>) ELSE mock_patient_context[k]] :
                  E \in SUBSET (K \cap PatientContextLists) } :
            K \in SUBSET PatientContextKeys }

ContextKeys == {"name", "diagnosis", "medication", "lab_results"}

\* context dictionaries handed to llm_suggest
Contexts ==
    UNION { { [k \in K |-> IF k \in E THEN D(<<>>)
                           ELSE mock_load_context("patient-123", "general_chat")[k]] :
                  E \in SUBSET (K \cap {"lab_results"}) } :
            K \in SUBSET ContextKeys }

InitCompose ==
    /\ session = <<>>
    /\ entry = "none"
    /\ pc = "compose"
    /\ \/ \E patient_context \in PatientContexts :
              state = [patient_context |-> patient_context]
       \/ \E context \in Contexts : state = [context |-> context]
    /\ req = <<>>
    /\ lookup = "none"
    /\ model = "none"
    /\ sent = <<>>
    /\ tasks = <<>>
    /\ visited = <<>>
    /\ result = [kind |-> "none"]
    /\ out = [kind |-> "none"]
    /\ turns = 0
    /\ runs = <<>>
    /\ checkpoints = <<>>

\* generate_response 129-161
ComposeSystemPrompt ==
    /\ pc = "compose"
    /\ "patient_context" \in DOMAIN state
    /\ out' = [kind |-> "prompt", text |-> system_prompt(state.patient_context)]
    /\ pc' = "composed"
    /\ UNCHANGED <<session, entry, state, req, lookup, model, sent, tasks, visited, result, turns, runs, checkpoints>>

\* llm_suggest 93-108
ComposeLlmSuggestPrompt ==
    /\ pc = "compose"
    /\ "context" \in DOMAIN state
    /\ out' = [kind |-> "prompt", text |-> llm_suggest_prompt(state.context)]
    /\ pc' = "composed"
    /\ UNCHANGED <<session, entry, state, req, lookup, model, sent, tasks, visited, result, turns, runs, checkpoints>>

NextCompose ==
    \/ ComposeSystemPrompt
    \/ ComposeLlmSuggestPrompt

SpecCompose == InitCompose /\ [][NextCompose]_vars

\* the attribute is absent from the dictionary or is an empty list
Missing(d, key) ==
    \/ key \notin DOMAIN d
    \/ d[key].t = "list" /\ d[key].v = <<>>

\* between `before` and `after` the text holds a value that is neither empty
\* nor the literal None
PlaceholderRendered(text, before, after) ==
    /\ Contains(text, before)
    /\ ~Contains(text, before \o after)
    /\ ~Contains(text, before \o "None" \o after)

\* C11: every attribute the composer renders that is absent from the profile
\* or is an empty list appears in the prompt with an explicit placeholder:
\* its line is there and its value is neither empty nor the literal None.
C11_MissingRenderedAsPlaceholder ==
    pc = "composed" =>
        /\ "patient_context" \in DOMAIN state =>
               LET d == state.patient_context
               IN  /\ Missing(d, "name") =>
                       PlaceholderRendered(out.text, "speaking to **", "**, who is")
                   /\ Missing(d, "age") =>
                       PlaceholderRendered(out.text, "who is **", " years old**")
                   /\ Missing(d, "medical_history") =>
                       PlaceholderRendered(out.text, "- **Medical History:** ", "\n")
                   /\ Missing(d, "diagnoses") =>
                       PlaceholderRendered(out.text, "- **Current Diagnoses:** ", "\n")
                   /\ Missing(d, "medications") =>
                       PlaceholderRendered(out.text, "- **Current Medications:** ", "\n")
                   /\ Missing(d, "allergies") =>
                       PlaceholderRendered(out.text, "- **Known Allergies:** ", "\n")
        /\ "context" \in DOMAIN state =>
               LET d == state.context
               IN  /\ Missing(d, "name") => PlaceholderRendered(out.text, "- Name: ", "\n")
                   /\ Missing(d, "diagnosis") =>
                       PlaceholderRendered(out.text, "- Diagnosis: ", "\n")
                   /\ Missing(d, "medication") =>
                       PlaceholderRendered(out.text, "- Medication: ", "\n")
                   /\ (Missing(d, "lab_results") \/ Missing(d.lab_results.v, "hba1c")) =>
                       PlaceholderRendered(out.text, "- Recent HbA1c: ", "\n")

-----------------------------------------------------------------------------
(* Runs side by side: app.invoke and healthcare_agent.invoke called while
   other calls are in progress, all on the same thread_id *)

MaxRuns == 2
RunIds == 1..MaxRuns

ConcHistories == {<<HumanMessage("Hi"), AIMessage("Hello.")>>}
ConcContents == {"Eat more fiber.", "This is URGENT."}
ConcMessages == {"What should I eat?"}
ConcUserId == "patient-12345"

\* the same graphs compiled with an in-memory checkpointer
checkpointer_memory == TRUE

\* both graphs are compiled without a checkpointer
checkpointer == FALSE

\* the state a graph starts from: the caller's input, over what the
\* checkpointer holds for the thread
LoadCheckpoint(store, key, input) ==
    IF checkpointer /\ key \in DOMAIN store THEN Merge(store[key], input) ELSE input

\* what the checkpointer holds after a step of the graph
SaveCheckpoint(store, key, st) ==
    IF checkpointer THEN (key :> st) @@ store ELSE store

\* the thread_id each caller puts in its config
ThreadKey(run) ==
    IF run.kind = "app" THEN "app:streamlit-chat-session"
    ELSE "healthcare_agent:" \o config_thread_id(run.args.user_id, "")

\* the input each caller hands to the graph
GraphInput(run) ==
    IF run.kind = "app"
    THEN [input |-> run.args.prompt, chat_history |-> run.args.history_for_bot]
    ELSE initial_state(run.args.user_id, run.args.message)

NoRun ==
    [ kind |-> "none", pc |-> "idle", args |-> <<>>, state |-> <<>>, done |-> <<>>,
      content |-> "", lookup_failed |-> FALSE, model_failed |-> FALSE,
      concurrent |-> FALSE, tasks |-> <<>>, result |-> [kind |-> "none"] ]

InFlight(r) == runs[r].kind # "none" /\ runs[r].result.kind = "pending"

InitConc ==
    /\ session = <<>>
    /\ entry = "none"
    /\ pc = "idle"
    /\ state = <<>>
    /\ req = <<>>
    /\ lookup = "none"
    /\ model = "none"
    /\ sent = <<>>
    /\ tasks = <<>>
    /\ visited = <<>>
    /\ result = [kind |-> "none"]
    /\ out = [kind |-> "none"]
    /\ turns = 0
    /\ runs = [r \in RunIds |-> NoRun]
    /\ checkpoints = <<>>

ConcUnchanged ==
    UNCHANGED <<session, entry, pc, state, req, lookup, model, sent, tasks, visited,
                result, out, turns>>

\* a call starts: the graph takes its input (calls are numbered in the order
\* they start)
ConcStart(r, kind, args) ==
    LET run == [NoRun EXCEPT !.kind = kind, !.args = args]
    IN  /\ runs[r].kind = "none"
        /\ \A q \in RunIds : q < r => runs[q].kind # "none"
        /\ runs' = [runs EXCEPT ![r] =
               [run EXCEPT !.pc = IF kind = "app" THEN "receive_query"
                                  ELSE "fetch_patient_context",
                           !.state = LoadCheckpoint(checkpoints, ThreadKey(run),
                                                    GraphInput(run)),
                           !.concurrent = \E q \in RunIds : InFlight(q),
                           !.result = [kind |-> "pending"]]]
        /\ UNCHANGED checkpoints
        /\ ConcUnchanged

ConcAppInvoke(r) ==
    \E prompt \in Prompts, history \in ConcHistories :
        ConcStart(r, "app", [prompt |-> prompt, history_for_bot |-> history])

ConcInvokeAgent(r) ==
    \E message \in ConcMessages :
        ConcStart(r, "healthcare_agent", [user_id |-> ConcUserId, message |-> message])

\* a node of run r executes on the run's own state and the graph writes its update
ConcNode(r, run, node, update, next) ==
    /\ runs' = [runs EXCEPT ![r] = [run EXCEPT !.state = Merge(@, update),
                                               !.done = Append(@, node),
                                               !.pc = next]]
    /\ checkpoints' = SaveCheckpoint(checkpoints, ThreadKey(runs[r]), runs'[r].state)
    /\ ConcUnchanged

ConcReceiveQuery(r) ==
    /\ runs[r].pc = "receive_query"
    /\ ConcNode(r, runs[r], "receive_query", receive_query(runs[r].state), "fetch_context")

ConcFetchContext(r) ==
    /\ runs[r].pc = "fetch_context"
    /\ ConcNode(r, runs[r], "fetch_context", fetch_context(runs[r].state), "llm_suggest")

ConcLlmSuggestOk(r) ==
    /\ runs[r].pc = "llm_suggest"
    /\ \E content \in ConcContents :
        ConcNode(r, [runs[r] EXCEPT !.content = content], "llm_suggest",
                 llm_suggest(runs[r].state, content), "escalate_if_needed")

ConcLlmSuggestRaise(r) ==
    /\ runs[r].pc = "llm_suggest"
    /\ runs' = [runs EXCEPT ![r].model_failed = TRUE,
                            ![r].result = [kind |-> "raised", error |-> LlmError],
                            ![r].pc = "ended"]
    /\ UNCHANGED checkpoints
    /\ ConcUnchanged

ConcEscalateIfNeeded(r) ==
    /\ runs[r].pc = "escalate_if_needed"
    /\ ConcNode(r, [runs[r] EXCEPT !.tasks = escalate_tasks(runs[r].state, @)],
                "escalate_if_needed", escalate_if_needed(runs[r].state),
                "save_and_respond")

ConcSaveAndRespond(r) ==
    /\ runs[r].pc = "save_and_respond"
    /\ LET final_state == Merge(runs[r].state, save_and_respond(runs[r].state))
       IN  ConcNode(r, [runs[r] EXCEPT !.result = [ kind        |-> "returned",
                                                    final_state |-> final_state ]],
                    "save_and_respond", save_and_respond(runs[r].state), "ended")

ConcFetchPatientContext(r) ==
    /\ runs[r].pc = "fetch_patient_context"
    /\ \E failed \in BOOLEAN :
        ConcNode(r, [runs[r] EXCEPT !.lookup_failed = failed], "fetch_patient_context",
                 fetch_patient_context(runs[r].state, failed), "generate_response")

ConcGenerateResponse(r) ==
    /\ runs[r].pc = "generate_response"
    /\ \E failed \in BOOLEAN, content \in ConcContents :
        ConcNode(r, [runs[r] EXCEPT !.model_failed = failed,
                                    !.content = IF failed THEN "" ELSE content],
                 "generate_response",
                 generate_response(runs[r].state, content, failed), "agent_end")

ConcInvokeAgentReturn(r) ==
    /\ runs[r].pc = "agent_end"
    /\ runs' = [runs EXCEPT
           ![r].result = [ kind  |-> "returned",
                           value |-> invoke_agent_result(
                                         runs[r].state, runs[r].args.user_id,
                                         config_thread_id(runs[r].args.user_id, "")) ],
           ![r].pc = "ended"]
    /\ UNCHANGED checkpoints
    /\ ConcUnchanged

NextConc ==
    \/ \E r \in RunIds : ConcAppInvoke(r)
    \/ \E r \in RunIds : ConcInvokeAgent(r)
    \/ \E r \in RunIds : ConcReceiveQuery(r)
    \/ \E r \in RunIds : ConcFetchContext(r)
    \/ \E r \in RunIds : ConcLlmSuggestOk(r)
    \/ \E r \in RunIds : ConcLlmSuggestRaise(r)
    \/ \E r \in RunIds : ConcEscalateIfNeeded(r)
    \/ \E r \in RunIds : ConcSaveAndRespond(r)
    \/ \E r \in RunIds : ConcFetchPatientContext(r)
    \/ \E r \in RunIds : ConcGenerateResponse(r)
    \/ \E r \in RunIds : ConcInvokeAgentReturn(r)

SpecConc == InitConc /\ [][NextConc]_vars

\* the update a node returns in a run executed alone, given the run's own
\* context and model outcomes
SoloUpdate(node, st, run) ==
    CASE node = "receive_query"         -> receive_query(st)
      [] node = "fetch_context"         -> fetch_context(st)
      [] node = "llm_suggest"           -> llm_suggest(st, run.content)
      [] node = "escalate_if_needed"    -> escalate_if_needed(st)
      [] node = "save_and_respond"      -> save_and_respond(st)
      [] node = "fetch_patient_context" -> fetch_patient_context(st, run.lookup_failed)
      [] node = "generate_response"     ->
             generate_response(st, run.content, run.model_failed)

\* the graph state of the run executed alone, after its first n nodes
RECURSIVE SoloState(_, _)
SoloState(run, n) ==
    IF n = 0 THEN GraphInput(run)
    ELSE LET st == SoloState(run, n - 1)
         IN  Merge(st, SoloUpdate(run.done[n], st, run))

\* what the run executed alone hands to its caller
SoloResult(run) ==
    IF run.kind = "app"
    THEN IF run.model_failed THEN [kind |-> "raised", error |-> LlmError]
         ELSE [kind |-> "returned", final_state |-> SoloState(run, 5)]
    ELSE [ kind  |-> "returned",
           value |-> invoke_agent_result(SoloState(run, 2), run.args.user_id,
                                         config_thread_id(run.args.user_id, "")) ]

\* the provider tasks the run executed alone creates
SoloTasks(run) ==
    IF run.kind = "app" /\ Len(run.done) >= 4
    THEN escalate_tasks(SoloState(run, 3), <<>>)
    ELSE <<>>

\* C12: runs executing side by side in any interleaving, on the same userId
\* and the same thread_id, share no mutable state: at every step a run's graph
\* state, and at its end what it hands to its caller (reply, escalate flag,
\* patient context, history) and the tasks it created, are what the run
\* produces from its own inputs and its own context and model outcomes when
\* executed alone
C12_RunsAreIsolated ==
    \A r \in RunIds :
        LET run == runs[r]
        IN  run.kind # "none" =>
                /\ run.state = SoloState(run, Len(run.done))
                /\ run.tasks = SoloTasks(run)
                /\ run.result.kind # "pending" => run.result = SoloResult(run)

\* two runs of the same graph on the same thread, the second started while
\* the first was in progress, both returned, with different replies
C12_Witness ==
    /\ runs[1].kind = "app" /\ runs[2].kind = "app"
    /\ runs[2].concurrent
    /\ runs[1].result.kind = "returned" /\ runs[2].result.kind = "returned"
    /\ runs[1].result.final_state.suggestion # runs[2].result.final_state.suggestion
    /\ runs[1].args # runs[2].args

-----------------------------------------------------------------------------
(* History within a run *)

IsPrefix(s, u) == Len(s) <= Len(u) /\ SubSeq(u, 1, Len(s)) = s

\* the conversation history held in a graph state
History(st) ==
    IF "chat_history" \in DOMAIN st THEN st.chat_history
    ELSE IF "messages" \in DOMAIN st THEN st.messages
    ELSE <<>>

\* a run is in progress or has just handed its result to its caller
InRun == pc # "idle"

\* C13: within a run the history is append-only: every step leaves a history
\* that has the history before the step as a prefix (its length never
\* decreases and no earlier entry is altered), and the prior history the
\* caller supplied keeps its value and stays a prefix of the run's history
C13_HistoryAppendOnly ==
    [][ InRun =>
            /\ IsPrefix(History(state), History(state'))
            /\ req' = req
            /\ entry = "chat_app" =>
                   /\ IsPrefix(req.history_for_bot, History(state'))
                   /\ IsPrefix(req.history_for_bot, session') ]_vars

\* a run that was given a non-empty prior history has returned with two
\* entries added to it
C13_Witness ==
    /\ entry = "chat_app"
    /\ pc = "app_returned"
    /\ req.history_for_bot # <<>>
    /\ Len(History(state)) = Len(req.history_for_bot) + 2
    /\ IsPrefix(req.history_for_bot, History(state))

-----------------------------------------------------------------------------
(* The escalate flag *)

\* the flag as a reader of the graph state finds it
Escalated(st) ==
    IF "escalate" \notin DOMAIN st THEN "unset"
    ELSE IF st.escalate THEN "true" ELSE "false"

\* the run has not yet completed escalate_if_needed
BeforeGate ==
    /\ InRun
    /\ \/ entry # "chat_app"
       \/ pc \in {"receive_query", "fetch_context", "llm_suggest", "app_raised",
                  "escalate_if_needed", "escalate_if_needed_return"}

\* a step leaves the flag at `initially` for as long as the run has not
\* completed escalate_if_needed, and changes the flag only as the return of
\* escalate_if_needed, from `initially`
FlagStep(initially) ==
    /\ BeforeGate' => Escalated(state') = initially
    /\ (InRun /\ Escalated(state') # Escalated(state)) =>
            /\ pc = "escalate_if_needed_return"
            /\ Escalated(state) = initially

\* C14 as stated: the flag is false from the creation of the state until the
\* Safety Gate step, is written at most once and only by that step, and is
\* never reset afterwards
C14_FalseUntilGate == [][FlagStep("false")]_vars

\* C14, amended: the flag is unset from the creation of the state until
\* escalate_if_needed returns, is written at most once per run and only by
\* that return, and is left unchanged (true stays true) by every other step
C14_UnsetUntilGate == [][FlagStep("unset")]_vars

\* a run returned with the flag true, save_and_respond having run after the gate
C14_Witness ==
    /\ entry = "chat_app"
    /\ pc = "app_returned"
    /\ visited[Len(visited)] = "save_and_respond"
    /\ Escalated(state) = "true"

-----------------------------------------------------------------------------
(* Blank user_id at the HTTP endpoints *)

\* C15: GET /patient/{user_id} with a blank user_id is answered 400 with
\* "user_id is required", as POST /chat answers a blank user_id with 400, and
\* fetch_patient_context is not executed for it
C15_BlankUserIdAnswered400 ==
    (pc = "idle" /\ entry \in {"get_patient_context", "chat"} /\ IsBlank(req.user_id)) =>
        /\ out.kind = "http"
        /\ out.status = 400
        /\ Contains(out.detail, "user_id is required")
        /\ visited = <<>>

-----------------------------------------------------------------------------
(* The chat UI's session history *)

Alternates(history) ==
    /\ Len(history) % 2 = 0
    /\ \A i \in 1..Len(history) :
           history[i].role = IF i % 2 = 1 THEN "human" ELSE "ai"

\* C16: whenever the chat UI is idle, after any sequence of submissions each
\* of which returned or raised, st.session_state.chat_history has even length
\* and alternates human, ai, starting with human; after a submission that
\* raised it equals its value before the submission, and after one that
\* returned it is that value extended by the prompt and then the reply
C16_SessionAlternates ==
    pc = "idle" =>
        /\ Alternates(session)
        /\ entry = "chat_app" =>
               /\ RunEnded
               /\ result.kind = "raised" => session = req.history_for_bot
               /\ result.kind = "returned" =>
                      session = req.history_for_bot
                                  \o <<HumanMessage(req.prompt), AIMessage(Reply)>>

\* a submission raised after an earlier one had succeeded: the session holds
\* the earlier exchange alone
C16_Witness ==
    /\ pc = "idle"
    /\ entry = "chat_app"
    /\ result.kind = "raised"
    /\ out.kind = "error"
    /\ Len(session) = 2
    /\ session = req.history_for_bot

====
